---- MODULE Spec2Model ----
(***************************************************************************)
(* A model of src/spotify.py: the Spotify client of BeatPrints.            *)
(*                                                                         *)
(* The client is one object (self) whose attributes are written by         *)
(* __init__ and authorization_header, and four blocking operations:        *)
(* construction (one POST to the token endpoint), the public method        *)
(* authorization_header called again on a constructed client (one POST),   *)
(* search_track (one GET) and trackinfo (two dependent GETs).  Each        *)
(* blocking HTTP call is split into the step that sends the request and    *)
(* the step that receives the provider's response, which is an input       *)
(* chosen by the environment.                                              *)
(*                                                                         *)
(* Conventions.  A JSON object is a function whose DOMAIN is its key set,  *)
(* a JSON list is a sequence, so a missing key is a key outside DOMAIN     *)
(* (Python's KeyError) and an index beyond Len is Python's IndexError.     *)
(* Python strings are TLA+ strings, except the release date, which         *)
(* strptime reads character by character and is therefore a sequence of    *)
(* Unicode code points.                                                    *)
(***************************************************************************)
EXTENDS Integers, Sequences, FiniteSets, TLC

VARIABLES
    self,        \* the instance attributes that have been assigned so far
    pc,          \* position of the single caller thread
    call,        \* the operation in progress or last finished, with its arguments
    net,         \* HTTP events (requests sent, responses received) of that operation
    init_data,   \* the token response the constructor received (a set of at most one)
    token_data,  \* the token response received by that operation, if any
    track_data,  \* the search response received by that operation, if any
    t_data,      \* the track response received by that operation, if any
    a_data,      \* the album response received by that operation, if any
    ret          \* how the operation ended and what it returned

vars == <<self, pc, call, net, init_data, token_data, track_data, t_data, a_data,
          ret>>

(***************************************************************************)
(* Bounds of the model.                                                    *)
(***************************************************************************)
\* The longest tracks.items list a search response carries.
MaxItems == 11

(***************************************************************************)
(* Small helpers for JSON values and Python string formatting.             *)
(***************************************************************************)
Has(obj, key) == key \in DOMAIN obj

Drop(obj, key) == [k \in DOMAIN obj \ {key} |-> obj[k]]

Min(a, b) == IF a < b THEN a ELSE b

DigitChar == <<"0", "1", "2", "3", "4", "5", "6", "7", "8", "9">>

\* A character of a text that is read character by character is its Unicode
\* code point.  Ord gives the code point of the ASCII characters named here.
Ord(c) ==
    CASE c = " " -> 32
      [] c = "-" -> 45
      [] c = "/" -> 47
      [] OTHER -> 47 + (CHOOSE i \in 1..10 : DigitChar[i] = c)

Text(s) == [i \in 1..Len(s) |-> Ord(s[i])]

\* The code points of the digit zero of every block of decimal digits
\* (category Nd, Unicode 14.0.0); the nine that follow each are its digits
\* one to nine.
NdZeros ==
    {48, 1632, 1776, 1984, 2406, 2534, 2662, 2790, 2918, 3046, 3174,
     3302, 3430, 3558, 3664, 3792, 3872, 4160, 4240, 6112, 6160, 6470,
     6608, 6784, 6800, 6992, 7088, 7232, 7248, 42528, 43216, 43264,
     43472, 43504, 43600, 44016, 65296, 66720, 68912, 69734, 69872,
     69942, 70096, 70384, 70736, 70864, 71248, 71360, 71472, 71904,
     72016, 72784, 73040, 73120, 92768, 92864, 93008, 120782, 120792,
     120802, 120812, 120822, 123200, 123632, 125264, 130032}

\* The class \d of a str pattern: any Unicode decimal digit.
IsDigit(c) == \E z \in NdZeros : c \in z..(z + 9)

\* int() of a decimal digit.
DigitVal(c) == c - (CHOOSE z \in NdZeros : c \in z..(z + 9))

\* The class [1-9]: ASCII digits only.
IsNonZero(c) == c \in Ord("1")..Ord("9")

\* str(n) for a non-negative integer: its decimal digits.
RECURSIVE Dec(_)
Dec(n) == IF n < 10 THEN DigitChar[n + 1]
          ELSE Dec(n \div 10) \o DigitChar[(n % 10) + 1]

\* The format spec ":02d" (and strftime's %d): at least two digits, zero padded.
Fmt02d(n) == IF n < 10 THEN "0" \o Dec(n) ELSE Dec(n)

(***************************************************************************)
(* Outcomes of an operation.                                               *)
(***************************************************************************)
NoRet == [status |-> "none", exc |-> "", value |-> <<>>]

Pending == [status |-> "pending", exc |-> "", value |-> <<>>]

Raised(e) == [status |-> "raised", exc |-> e, value |-> <<>>]

Returned(v) == [status |-> "returned", exc |-> "", value |-> v]

(***************************************************************************)
(* HTTP events.                                                            *)
(***************************************************************************)
Send(method, url, params, headers) ==
    [ev |-> "send", method |-> method, url |-> url, params |-> params,
     headers |-> headers]

Recv == [ev |-> "recv", method |-> "", url |-> "", params |-> <<>>, headers |-> <<>>]

\* The provider's possible answers to any request: the transport fails, the
\* body is not JSON, or a JSON body arrives with some HTTP status.
ConnectionFailed == [kind |-> "raise", status |-> 0, body |-> <<>>]

NotJson(status) == [kind |-> "notjson", status |-> status, body |-> <<>>]

Json(status, body) == [kind |-> "json", status |-> status, body |-> body]

\* requests.get(...).json(): the exception raised, or "" when a body is decoded.
FetchError(resp) ==
    CASE resp.kind = "raise" -> "ConnectionError"
      [] resp.kind = "notjson" -> "JSONDecodeError"
      [] OTHER -> ""

(***************************************************************************)
(* Construction: __init__ and authorization_header.                        *)
(***************************************************************************)
ClientIds == {"id-1"}

ClientSecrets == {"secret-1"}

Tokens == {"tokA", "tokB"}

TokenResponses ==
    {Json(200, [access_token |-> t, token_type |-> "Bearer"]) : t \in Tokens}
    \cup {Json(400, [error |-> "invalid_client"]),
          Json(200, [token_type |-> "Bearer"]),
          NotJson(503), ConnectionFailed}

BASE_URL == "https://api.spotify.com/v1"

TokenEndpoint == "https://accounts.spotify.com/api/token"

TokenPayload(s) ==
    [grant_type |-> "client_credentials", client_id |-> s.CLIENT_ID,
     client_secret |-> s.CLIENT_SECRET]

FormHeaders == "Content-Type" :> "application/x-www-form-urlencoded"

AuthHeaderOf(token) == [Authorization |-> "Bearer " \o token]

\* A variant that reads the token with a default instead of a lookup.
AuthOutcome_defaulted(resp) ==
    IF FetchError(resp) # "" THEN Raised(FetchError(resp))
    ELSE IF ~Has(resp.body, "access_token") THEN Returned(AuthHeaderOf("None"))
    ELSE Returned(AuthHeaderOf(resp.body.access_token))

\* Lines 44-46: the effect of the token response on the instance.
AuthOutcome(resp) ==
    IF FetchError(resp) # "" THEN Raised(FetchError(resp))
    ELSE IF ~Has(resp.body, "access_token") THEN Raised("KeyError")
    ELSE Returned(AuthHeaderOf(resp.body.access_token))

Init ==
    /\ self = <<>>
    /\ pc = "start"
    /\ call = [op |-> "none"]
    /\ net = <<>>
    /\ init_data = {}
    /\ token_data = {}
    /\ track_data = {}
    /\ t_data = {}
    /\ a_data = {}
    /\ ret = NoRet

\* Spotify(CLIENT_ID, CLIENT_SECRET) up to the blocking requests.post.
init_call(id, secret) ==
    /\ pc = "start"
    /\ self' = [CLIENT_ID |-> id, CLIENT_SECRET |-> secret, BASE_URL |-> BASE_URL]
    /\ net' = <<Send("POST", TokenEndpoint, TokenPayload(self'), FormHeaders)>>
    /\ call' = [op |-> "__init__"]
    /\ ret' = Pending
    /\ pc' = "await_token"
    /\ UNCHANGED <<init_data, token_data, track_data, t_data, a_data>>

\* The caller invokes authorization_header() on the constructed client, up to
\* the blocking requests.post.
authorization_header_call ==
    /\ pc = "idle"
    /\ call' = [op |-> "authorization_header"]
    /\ net' = <<Send("POST", TokenEndpoint, TokenPayload(self), FormHeaders)>>
    /\ ret' = Pending
    /\ pc' = "await_token"
    /\ token_data' = {}
    /\ track_data' = {}
    /\ t_data' = {}
    /\ a_data' = {}
    /\ UNCHANGED <<self, init_data>>

\* The token response arrives and authorization_header finishes; so does
\* __init__ when it made the call.  An exception out of __init__ leaves the
\* caller without an instance; out of a direct call it leaves the client as
\* it was.
authorization_header_recv(resp) ==
    /\ pc = "await_token"
    /\ token_data' = {resp}
    /\ init_data' = IF call.op = "__init__" THEN {resp} ELSE init_data
    /\ net' = Append(net, Recv)
    /\ LET out == AuthOutcome(resp) IN
        IF out.status = "returned"
        THEN /\ self' = [k \in DOMAIN self \cup {"AUTH_HEADER"} |->
                            IF k = "AUTH_HEADER" THEN out.value ELSE self[k]]
             /\ ret' = Returned(<<>>)
             /\ pc' = "idle"
        ELSE /\ self' = self
             /\ ret' = out
             /\ pc' = IF call.op = "__init__" THEN "init_raised" ELSE "idle"
    /\ UNCHANGED <<call, track_data, t_data, a_data>>

(***************************************************************************)
(* search_track.                                                           *)
(***************************************************************************)
Queries == {"blinding lights"}

Limits == {1, 5, 20}

\* Line 68: the slice [:10] applied to the provider's items.
SearchCut == 10

\* The k-th track of the provider's catalogue, as a search item.
CatalogItem(k) ==
    [name |-> "Song " \o Dec(k),
     artists |-> <<[name |-> "Artist " \o Dec(k)], [name |-> "Guest " \o Dec(k)]>>,
     album |-> [name |-> "Album " \o Dec(k)],
     id |-> "trk" \o Dec(k)]

ItemsFrom(first, n) == [k \in 1..n |-> CatalogItem(first + k - 1)]

SearchBody(items) == [tracks |-> [href |-> "search", items |-> items]]

ErrorBody(status) == [error |-> [status |-> status, message |-> "provider error"]]

\* Items the provider should never send, each missing something line 70-73 reads.
BrokenItems ==
    {Drop(CatalogItem(1), "name"),
     Drop(CatalogItem(1), "album"),
     Drop(CatalogItem(1), "id"),
     [CatalogItem(1) EXCEPT !.artists = <<>>]}

SearchResponses ==
    {Json(200, SearchBody(ItemsFrom(first, n))) : first \in {1, 4}, n \in 0..MaxItems}
    \cup {Json(200, SearchBody(<<CatalogItem(2), b>>)) : b \in BrokenItems}
    \cup {Json(401, ErrorBody(401)), Json(429, ErrorBody(429)),
          Json(200, [tracks |-> [href |-> "search"]]),
          Json(500, SearchBody(ItemsFrom(1, 2))),
          NotJson(502), ConnectionFailed}

\* Lines 70-73 on one item: the exception its lookups raise, or "".
ItemError(item) ==
    CASE ~Has(item, "name") -> "KeyError"
      [] ~Has(item, "artists") -> "KeyError"
      [] Len(item.artists) = 0 -> "IndexError"
      [] ~Has(item.artists[1], "name") -> "KeyError"
      [] ~Has(item, "album") -> "KeyError"
      [] ~Has(item.album, "name") -> "KeyError"
      [] ~Has(item, "id") -> "KeyError"
      [] OTHER -> ""

\* Line 68: track_data.get("tracks", {}).get("items", []).
ItemsOf(data) ==
    IF Has(data, "tracks") /\ Has(data.tracks, "items") THEN data.tracks.items
    ELSE <<>>

SearchRow(i, item) == <<i, item.name, item.artists[1].name, item.album.name, item.id>>

\* A variant that cuts the items at the limit argument.
search_track_result_byLimit(data, limit) ==
    LET items == ItemsOf(data)
        shown == SubSeq(items, 1, Min(Len(items), limit))
        bad == {i \in 1..Len(shown) : ItemError(shown[i]) # ""}
    IN  IF bad # {}
        THEN Raised(ItemError(shown[CHOOSE i \in bad : \A j \in bad : i <= j]))
        ELSE Returned([i \in 1..Len(shown) |-> SearchRow(i, shown[i])])

\* Lines 59-77 once the body is decoded.
search_track_result(data, limit) ==
    LET items == ItemsOf(data)
        shown == SubSeq(items, 1, Min(Len(items), SearchCut))
        bad == {i \in 1..Len(shown) : ItemError(shown[i]) # ""}
    IN  IF bad # {}
        THEN Raised(ItemError(shown[CHOOSE i \in bad : \A j \in bad : i <= j]))
        ELSE Returned([i \in 1..Len(shown) |-> SearchRow(i, shown[i])])

SearchUrl(s) == s.BASE_URL \o "/search"

search_track_call(track_name, limit) ==
    /\ pc = "idle"
    /\ call' = [op |-> "search_track", track_name |-> track_name, limit |-> limit]
    /\ net' = <<Send("GET", SearchUrl(self),
                    [q |-> track_name, type |-> "track", limit |-> limit],
                    self.AUTH_HEADER)>>
    /\ ret' = Pending
    /\ pc' = "await_search"
    /\ token_data' = {}
    /\ track_data' = {}
    /\ t_data' = {}
    /\ a_data' = {}
    /\ UNCHANGED <<self, init_data>>

search_track_recv(resp) ==
    /\ pc = "await_search"
    /\ track_data' = {resp}
    /\ net' = Append(net, Recv)
    /\ ret' = IF FetchError(resp) # "" THEN Raised(FetchError(resp))
              ELSE search_track_result(resp.body, call.limit)
    /\ pc' = "idle"
    /\ UNCHANGED <<self, call, init_data, token_data, t_data, a_data>>

(***************************************************************************)
(* datetime.datetime.strptime(date, date_format).strftime("%B %d, %Y").    *)
(* A format is the sequence of its directives and literal characters, a    *)
(* text is the sequence of its code points.                                *)
(***************************************************************************)
\* Lines 94-96: the dictionary lookup with its default "".
Directive(d) == [dir |-> d, ch |-> 0]

Literal(c) == [dir |-> "", ch |-> Ord(c)]

DateFormatOf(precision) ==
    CASE precision = "day" ->
            <<Directive("Y"), Literal("-"), Directive("m"), Literal("-"),
              Directive("d")>>
      [] precision = "month" -> <<Directive("Y"), Literal("-"), Directive("m")>>
      [] precision = "year" -> <<Directive("Y")>>
      [] OTHER -> <<>>

\* The character at position i, or -1 past the end of the text.
CharAt(s, i) == IF i <= Len(s) THEN s[i] ELSE -1

NoMatch == [ok |-> FALSE, len |-> 0, val |-> 0]

Matched(len, val) == [ok |-> TRUE, len |-> len, val |-> val]

\* One directive of the format against the text at position i, as the regular
\* expression strptime compiles for it: %Y is \d\d\d\d, %m is
\* 1[0-2]|0[1-9]|[1-9], %d is 3[0-1]|[1-2]\d|0[1-9]|[1-9]| [1-9], and any
\* other character stands for itself.  The matched text is converted by int().
MatchDirective(tok, s, i) ==
    LET c1 == CharAt(s, i)
        c2 == CharAt(s, i + 1)
        two == 10 * DigitVal(c1) + DigitVal(c2)
    IN  CASE tok.dir = "Y" ->
               IF \A k \in 0..3 : IsDigit(CharAt(s, i + k))
               THEN Matched(4, 1000 * DigitVal(s[i]) + 100 * DigitVal(s[i + 1])
                               + 10 * DigitVal(s[i + 2]) + DigitVal(s[i + 3]))
               ELSE NoMatch
          [] tok.dir = "m" ->
               IF c1 = Ord("1") /\ c2 \in Ord("0")..Ord("2") THEN Matched(2, two)
               ELSE IF c1 = Ord("0") /\ IsNonZero(c2) THEN Matched(2, two)
               ELSE IF IsNonZero(c1) THEN Matched(1, DigitVal(c1))
               ELSE NoMatch
          [] tok.dir = "d" ->
               IF c1 = Ord("3") /\ c2 \in Ord("0")..Ord("1") THEN Matched(2, two)
               ELSE IF c1 \in Ord("1")..Ord("2") /\ IsDigit(c2) THEN Matched(2, two)
               ELSE IF c1 = Ord("0") /\ IsNonZero(c2) THEN Matched(2, two)
               ELSE IF IsNonZero(c1) THEN Matched(1, DigitVal(c1))
               ELSE IF c1 = Ord(" ") /\ IsNonZero(c2) THEN Matched(2, DigitVal(c2))
               ELSE NoMatch
          [] OTHER -> IF c1 = tok.ch THEN Matched(1, 0) ELSE NoMatch

\* The fields strptime starts from when the format does not set them.
DateDefaults == [ok |-> TRUE, pos |-> 1, Y |-> 1900, m |-> 1, d |-> 1]

RECURSIVE MatchFormat(_, _, _, _)
MatchFormat(fmt, k, s, acc) ==
    IF k > Len(fmt) \/ ~acc.ok THEN acc
    ELSE LET r == MatchDirective(fmt[k], s, acc.pos)
             next == [acc EXCEPT !.pos = acc.pos + r.len]
         IN  IF ~r.ok THEN [acc EXCEPT !.ok = FALSE]
             ELSE MatchFormat(fmt, k + 1, s,
                     CASE fmt[k].dir = "Y" -> [next EXCEPT !.Y = r.val]
                       [] fmt[k].dir = "m" -> [next EXCEPT !.m = r.val]
                       [] fmt[k].dir = "d" -> [next EXCEPT !.d = r.val]
                       [] OTHER -> next)

IsLeap(y) == (y % 4 = 0) /\ ((y % 100 # 0) \/ (y % 400 = 0))

DaysInMonth(y, m) ==
    IF m = 2 THEN (IF IsLeap(y) THEN 29 ELSE 28)
    ELSE IF m \in {4, 6, 9, 11} THEN 30 ELSE 31

\* strptime: the parsed date, or ok = FALSE for its ValueError (the text does
\* not match, text remains after the match, or the fields are no date).
strptime(date, fmt) ==
    LET r == MatchFormat(fmt, 1, date, DateDefaults) IN
    IF ~r.ok THEN r
    ELSE IF r.pos # Len(date) + 1 THEN [r EXCEPT !.ok = FALSE]
    ELSE IF r.Y < 1 \/ r.d > DaysInMonth(r.Y, r.m) THEN [r EXCEPT !.ok = FALSE]
    ELSE r

MonthName ==
    <<"January", "February", "March", "April", "May", "June", "July",
      "August", "September", "October", "November", "December">>

\* Line 97-99: strftime("%B %d, %Y") of a parsed date (years of four digits).
strftime(dt) == MonthName[dt.m] \o " " \o Fmt02d(dt.d) \o ", " \o Dec(dt.Y)

(***************************************************************************)
(* trackinfo.                                                              *)
(***************************************************************************)
\* Rows as search_track builds them, and rows that carry the same identifier
\* with every other field different.
Rows ==
    {SearchRow(k, CatalogItem(k)) : k \in 1..2}
    \cup {<<7, "Another song", "Another artist", "Another album", CatalogItem(k).id>> :
            k \in 1..2}

TrackIds == {"trk1", "trk2"}

AlbumIds == {"alb1", "alb2"}

\* The last two are 2021 in ARABIC-INDIC digits (U+0660..) and 2021-05-1
\* followed by ARABIC-INDIC DIGIT ZERO.
ReleaseDates ==
    {Text(<<"2", "0", "2", "1", "-", "0", "5", "-", "1", "0">>),
     Text(<<"1", "9", "9", "9", "-", "1", "2", "-", "3", "1">>),
     Text(<<"2", "0", "2", "1", "-", "0", "2", "-", "3", "0">>),
     Text(<<"2", "0", "2", "1", "-", "0", "5">>),
     Text(<<"2", "0", "2", "1">>),
     Text(<<"2", "0", "2", "1", "-", "5", "-", "1">>),
     <<>>,
     <<1634, 1632, 1634, 1633>>,
     Text(<<"2", "0", "2", "1", "-", "0", "5", "-", "1">>) \o <<1632>>}

Precisions == {"day", "month", "year", "decade"}

Durations == {0, 59000, 59999, 185000, 600000, 6000000}

Labels == {"XO", "Sub Pop"}

TrackBody(tid, aid, date, precision, ms) ==
    [id |-> tid,
     name |-> "Name of " \o tid,
     artists |-> <<[name |-> "Artist of " \o tid]>>,
     duration_ms |-> ms,
     album |-> [id |-> aid,
                release_date |-> date,
                release_date_precision |-> precision,
                images |-> <<[url |-> "https://i.scdn.co/image/" \o aid]>>]]

GoodTrack == TrackBody("trk1", "alb1", Text(<<"2", "0", "2", "1">>), "year", 185000)

TrackResponses ==
    {Json(200, TrackBody(tid, aid, date, precision, ms)) :
        tid \in TrackIds, aid \in AlbumIds, date \in ReleaseDates,
        precision \in Precisions, ms \in Durations}
    \cup {Json(200, Drop(GoodTrack, k)) : k \in {"album", "name", "duration_ms", "id"}}
    \cup {Json(200, [GoodTrack EXCEPT !.album = Drop(GoodTrack.album, k)]) :
            k \in {"id", "release_date", "release_date_precision", "images"}}
    \cup {Json(200, [GoodTrack EXCEPT !.artists = <<>>]),
          Json(404, ErrorBody(404)), NotJson(502), ConnectionFailed}

AlbumResponses ==
    {Json(200, [id |-> aid, label |-> label]) : aid \in {"alb1"}, label \in Labels}
    \cup {Json(404, ErrorBody(404)), NotJson(502), ConnectionFailed}

TrackUrl(s, track) == s.BASE_URL \o "/tracks/" \o track[5]

\* Line 85: the album URL, or the KeyError of t_data['album']['id'].
AlbumIdError(t) ==
    IF ~Has(t, "album") \/ ~Has(t.album, "id") THEN "KeyError" ELSE ""

\* A variant that asks for the album under the track's own identifier.
AlbumUrl_fromTrack(s, t) == s.BASE_URL \o "/albums/" \o t.id

AlbumUrl(s, t) == s.BASE_URL \o "/albums/" \o t.album.id

\* A variant that forgets the "% 60" of the seconds.
FormatDuration_noMod(ms) == Fmt02d(ms \div 60000) \o ":" \o Fmt02d(ms \div 1000)

\* Line 107.
FormatDuration(ms) == Fmt02d(ms \div 60000) \o ":" \o Fmt02d((ms \div 1000) % 60)

\* Lines 89-99: the first exception raised before the record is built, or "".
DateError(t, a) ==
    CASE ~Has(a, "label") -> "KeyError"
      [] ~Has(t.album, "release_date") -> "KeyError"
      [] ~Has(t.album, "release_date_precision") -> "KeyError"
      [] ~strptime(t.album.release_date,
                   DateFormatOf(t.album.release_date_precision)).ok -> "ValueError"
      [] OTHER -> ""

\* Lines 102-112: the first exception raised while the record is built, or "".
InfoError(t) ==
    CASE ~Has(t, "name") -> "KeyError"
      [] ~Has(t, "artists") -> "KeyError"
      [] Len(t.artists) = 0 -> "IndexError"
      [] ~Has(t.artists[1], "name") -> "KeyError"
      [] ~Has(t, "duration_ms") -> "KeyError"
      [] ~Has(t.album, "images") -> "KeyError"
      [] Len(t.album.images) = 0 -> "IndexError"
      [] ~Has(t.album.images[1], "url") -> "KeyError"
      [] ~Has(t, "id") -> "KeyError"
      [] OTHER -> ""

\* A variant that copies the name from the caller's row.
TrackInfo_fromRow(track, t, a) ==
    LET release_date ==
            strftime(strptime(t.album.release_date,
                              DateFormatOf(t.album.release_date_precision)))
    IN  [album_id |-> t.album.id,
         name |-> track[2],
         artist |-> t.artists[1].name,
         year |-> t.album.release_date,
         duration |-> FormatDuration(t.duration_ms),
         image |-> t.album.images[1].url,
         label |-> release_date \o "\n" \o a.label,
         track_id |-> t.id,
         cover |-> "./assets/spotify_banner.jpg"]

\* Lines 102-112: the record trackinfo returns.
TrackInfo(track, t, a) ==
    LET release_date ==
            strftime(strptime(t.album.release_date,
                              DateFormatOf(t.album.release_date_precision)))
    IN  [album_id |-> t.album.id,
         name |-> t.name,
         artist |-> t.artists[1].name,
         year |-> t.album.release_date,
         duration |-> FormatDuration(t.duration_ms),
         image |-> t.album.images[1].url,
         label |-> release_date \o "\n" \o a.label,
         track_id |-> t.id,
         cover |-> "./assets/spotify_banner.jpg"]

\* Lines 89-114 once both bodies are decoded.
trackinfo_result(track, t, a) ==
    IF DateError(t, a) # "" THEN Raised(DateError(t, a))
    ELSE IF InfoError(t) # "" THEN Raised(InfoError(t))
    ELSE Returned(TrackInfo(track, t, a))

trackinfo_call(track) ==
    /\ pc = "idle"
    /\ call' = [op |-> "trackinfo", track |-> track]
    /\ net' = <<Send("GET", TrackUrl(self, track), <<>>, self.AUTH_HEADER)>>
    /\ ret' = Pending
    /\ pc' = "await_track"
    /\ token_data' = {}
    /\ track_data' = {}
    /\ t_data' = {}
    /\ a_data' = {}
    /\ UNCHANGED <<self, init_data>>

\* The track response arrives (line 82); the album request leaves (line 84).
trackinfo_recv_track(resp) ==
    /\ pc = "await_track"
    /\ t_data' = {resp}
    /\ a_data' = a_data
    /\ IF FetchError(resp) # ""
       THEN /\ net' = Append(net, Recv)
            /\ ret' = Raised(FetchError(resp))
            /\ pc' = "idle"
       ELSE IF AlbumIdError(resp.body) # ""
       THEN /\ net' = Append(net, Recv)
            /\ ret' = Raised(AlbumIdError(resp.body))
            /\ pc' = "idle"
       ELSE /\ net' = net \o <<Recv, Send("GET", AlbumUrl(self, resp.body), <<>>,
                                         self.AUTH_HEADER)>>
            /\ ret' = ret
            /\ pc' = "await_album"
    /\ UNCHANGED <<self, call, init_data, token_data, track_data>>

\* The album response arrives (line 87); lines 89-114 run.
trackinfo_recv_album(resp) ==
    /\ pc = "await_album"
    /\ a_data' = {resp}
    /\ net' = Append(net, Recv)
    /\ ret' = IF FetchError(resp) # "" THEN Raised(FetchError(resp))
              ELSE LET t == (CHOOSE r \in t_data : TRUE).body
                   IN  trackinfo_result(call.track, t, resp.body)
    /\ pc' = "idle"
    /\ UNCHANGED <<self, call, init_data, token_data, track_data, t_data>>

Next ==
    \/ \E id \in ClientIds, secret \in ClientSecrets : init_call(id, secret)
    \/ authorization_header_call
    \/ \E resp \in TokenResponses : authorization_header_recv(resp)
    \/ \E q \in Queries, limit \in Limits : search_track_call(q, limit)
    \/ \E resp \in SearchResponses : search_track_recv(resp)
    \/ \E track \in Rows : trackinfo_call(track)
    \/ \E resp \in TrackResponses : trackinfo_recv_track(resp)
    \/ \E resp \in AlbumResponses : trackinfo_recv_album(resp)

Spec == Init /\ [][Next]_vars

(***************************************************************************)
(* Properties.                                                             *)
(***************************************************************************)
TheSearch == CHOOSE r \in track_data : TRUE

TheTrack == CHOOSE r \in t_data : TRUE

TheAlbum == CHOOSE r \in a_data : TRUE

Finished(op) == pc = "idle" /\ call.op = op

Sends == SelectSeq(net, LAMBDA e : e.ev = "send")

\* C1: when the search response carries a tracks.items list of N well-formed
\* items, search_track returns min(N, 10) rows in the provider's order, the
\* k-th being [k, name, first artist's name, album name, id], whatever the
\* limit argument is; N = 0 gives the empty sequence.
C1_SearchRows ==
    (Finished("search_track") /\ track_data # {} /\ TheSearch.kind = "json"
        /\ Has(TheSearch.body, "tracks") /\ Has(TheSearch.body.tracks, "items")
        /\ \A k \in 1..Len(TheSearch.body.tracks.items) :
              ItemError(TheSearch.body.tracks.items[k]) = "")
    => LET items == TheSearch.body.tracks.items
           n == IF Len(items) < 10 THEN Len(items) ELSE 10
       IN  /\ ret.status = "returned"
           /\ Len(ret.value) = n
           /\ \A k \in 1..n :
                 ret.value[k] = <<k, items[k].name, items[k].artists[1].name,
                                  items[k].album.name, items[k].id>>
           /\ (Len(items) = 0 => ret.value = <<>>)

\* Eleven items arrived for a call with limit 5 and ten rows were returned.
C1_Witness ==
    /\ Finished("search_track") /\ track_data # {} /\ TheSearch.kind = "json"
    /\ Has(TheSearch.body, "tracks") /\ Has(TheSearch.body.tracks, "items")
    /\ Len(TheSearch.body.tracks.items) = 11
    /\ call.limit = 5
    /\ ret.status = "returned" /\ Len(ret.value) = 10

\* The release date has the shape its precision announces: YYYY-MM-DD, YYYY-MM
\* or YYYY, in ASCII digits (code points 48..57) and hyphens (45).
C2_Shape(date, precision) ==
    LET digits(I) == \A i \in I : date[i] \in 48..57 IN
    CASE precision = "day" ->
            Len(date) = 10 /\ digits({1, 2, 3, 4, 6, 7, 9, 10})
            /\ date[5] = 45 /\ date[8] = 45
      [] precision = "month" ->
            Len(date) = 7 /\ digits({1, 2, 3, 4, 6, 7}) /\ date[5] = 45
      [] precision = "year" -> Len(date) = 4 /\ digits({1, 2, 3, 4})
      [] OTHER -> FALSE

\* The text the specification announces for a date of that shape.
C2_Text(date, precision) ==
    LET chr(i) == ToString(date[i] - 48)
        year == chr(1) \o chr(2) \o chr(3) \o chr(4)
        month == MonthName[10 * (date[6] - 48) + (date[7] - 48)]
    IN  CASE precision = "day" ->
                month \o " " \o chr(9) \o chr(10) \o ", " \o year
          [] precision = "month" -> month \o " " \o year
          [] OTHER -> year

\* C2: for precision "day", "month" or "year" and a release date of the
\* matching shape, the first line of the returned "label" is "Month DD, YYYY",
\* "Month YYYY" or "YYYY" respectively.
C2_DatePattern ==
    (Finished("trackinfo") /\ ret.status = "returned"
        /\ C2_Shape(TheTrack.body.album.release_date,
                    TheTrack.body.album.release_date_precision))
    => ret.value.label =
          C2_Text(TheTrack.body.album.release_date,
                  TheTrack.body.album.release_date_precision)
          \o "\n" \o TheAlbum.body.label

\* C3: whenever the track response declares a precision other than "day",
\* "month" and "year", trackinfo ends with an error, whatever the release date.
C3_UnknownPrecisionFails ==
    (Finished("trackinfo") /\ t_data # {} /\ TheTrack.kind = "json"
        /\ Has(TheTrack.body, "album")
        /\ Has(TheTrack.body.album, "release_date_precision")
        /\ TheTrack.body.album.release_date_precision \notin {"day", "month", "year"})
    => ret.status = "raised"

C4_TwoDigits(n) == IF n < 10 THEN "0" \o ToString(n) ELSE ToString(n)

\* C4: the returned "duration" is the minutes duration_ms div 60000 and the
\* seconds (duration_ms div 1000) mod 60, each written with at least two
\* digits and joined by ":"; 185000 gives "03:05" and 59000 gives "00:59".
C4_Duration ==
    (Finished("trackinfo") /\ ret.status = "returned")
    => LET ms == TheTrack.body.duration_ms
           seconds == (ms \div 1000) % 60
       IN  /\ seconds \in 0..59
           /\ ret.value.duration =
                 C4_TwoDigits(ms \div 60000) \o ":" \o C4_TwoDigits(seconds)
           /\ (ms = 185000 => ret.value.duration = "03:05")
           /\ (ms = 59000 => ret.value.duration = "00:59")

\* A track of 185000 ms was formatted.
C4_Witness ==
    /\ Finished("trackinfo") /\ ret.status = "returned"
    /\ TheTrack.body.duration_ms = 185000
    /\ ret.value.duration = "03:05"

TokenOf(r) == r.body.access_token

Granted(r) == r.kind = "json" /\ Has(r.body, "access_token")

IsGet(e) == e.ev = "send" /\ e.method = "GET"

\* C5: once the token response of construction carries access_token T,
\* construction completes with the header {"Authorization": "Bearer T"} stored,
\* and every later request of search_track and trackinfo is sent with exactly
\* that header.
C5_BearerHeader ==
    \A r \in init_data :
        Granted(r)
        => /\ pc \notin {"start", "init_raised"}
           /\ Has(self, "AUTH_HEADER")
           /\ (call.op = "__init__"
                 => self.AUTH_HEADER = [Authorization |-> "Bearer " \o TokenOf(r)])
           /\ \A i \in 1..Len(net) :
                 IsGet(net[i])
                 => net[i].headers = [Authorization |-> "Bearer " \o TokenOf(r)]

\* C6: a search response that is not a success, or whose body has no "tracks"
\* key or no "items" under it, makes search_track end with an error.
C6_SearchErrorsPropagate ==
    (Finished("search_track") /\ track_data # {}
        /\ (\/ TheSearch.kind # "json"
            \/ TheSearch.status # 200
            \/ ~Has(TheSearch.body, "tracks")
            \/ ~Has(TheSearch.body.tracks, "items")))
    => ret.status = "raised"

\* C7: a token response without access_token makes authorization_header
\* raise KeyError; received during construction, the error leaves the
\* constructor: no header is stored, no instance is returned, and the token
\* request is the only request there ever is.
C7_MissingToken ==
    /\ \A r \in token_data :
          (r.kind = "json" /\ ~Has(r.body, "access_token"))
          => ret.status = "raised" /\ ret.exc = "KeyError"
    /\ \A r \in init_data :
          (r.kind = "json" /\ ~Has(r.body, "access_token"))
          => /\ pc = "init_raised"
             /\ call.op = "__init__"
             /\ ret.status = "raised" /\ ret.exc = "KeyError"
             /\ ~Has(self, "AUTH_HEADER")
             /\ Len(net) = 2 /\ net[1].method = "POST" /\ net[2].ev = "recv"

\* The provider refused the credentials and the constructor raised.
C7_Witness ==
    /\ pc = "init_raised"
    /\ init_data = {Json(400, [error |-> "invalid_client"])}
    /\ ret.exc = "KeyError"

\* C8: a trackinfo call first sends one GET for the track named by the row's
\* fifth field; only after its response, and only if that response carries the
\* album id, it sends one GET for that album; it sends nothing else, and a call
\* that returns has sent exactly these two requests.
C8_RequestOrder ==
    call.op = "trackinfo"
    => LET trackUrl == "https://api.spotify.com/v1/tracks/" \o call.track[5]
           isGet(e, url) == e.ev = "send" /\ e.method = "GET" /\ e.url = url
       IN  /\ Len(net) >= 1 /\ isGet(net[1], trackUrl)
           /\ (t_data = {} <=> pc = "await_track")
           /\ (t_data = {} => Len(net) = 1)
           /\ (t_data # {} =>
                 IF TheTrack.kind # "json" \/ ~Has(TheTrack.body, "album")
                    \/ ~Has(TheTrack.body.album, "id")
                 THEN /\ pc = "idle" /\ ret.status = "raised"
                      /\ Len(net) = 2 /\ net[2].ev = "recv"
                 ELSE LET albumUrl == "https://api.spotify.com/v1/albums/"
                                         \o TheTrack.body.album.id
                      IN  /\ Len(net) >= 3 /\ net[2].ev = "recv"
                          /\ isGet(net[3], albumUrl)
                          /\ (pc = "await_album" <=> Len(net) = 3)
                          /\ (pc = "idle" <=> (Len(net) = 4 /\ net[4].ev = "recv")))
           /\ (ret.status = "returned" => Len(Sends) = 2)

\* A call for trk2 returned after fetching the track and then album alb2.
C8_Witness ==
    /\ Finished("trackinfo") /\ ret.status = "returned"
    /\ call.track[5] = "trk2"
    /\ TheTrack.body.album.id = "alb2"
    /\ Len(net) = 4
    /\ net[3].url = "https://api.spotify.com/v1/albums/alb2"

\* C9: the header is written once, by the step that ends construction; after
\* that no operation changes the header, the credentials or the base URL.
C9_HeaderWrittenOnce ==
    [][/\ (Has(self, "AUTH_HEADER") => self' = self)
       /\ ((~Has(self, "AUTH_HEADER") /\ Has(self', "AUTH_HEADER"))
             => (pc = "await_token" /\ pc' = "idle"))]_vars

\* The rows that share the identifier of a row and differ elsewhere.
C10_SameId(track) ==
    {<<i, name, artist, album, track[5]>> :
        i \in {track[1], 9}, name \in {track[2], "n"},
        artist \in {track[3], "a"}, album \in {track[4], "b"}}

\* C10: trackinfo reads its row only through the identifier: with any other
\* row of the same identifier and the same responses it sends the same
\* requests and ends the same way, and the returned name, artist, album_id and
\* track_id are those of the track response.
C10_OnlyIdentifier ==
    call.op = "trackinfo"
    => /\ \A other \in C10_SameId(call.track) :
             /\ net[1] = Send("GET", TrackUrl(self, other), <<>>, self.AUTH_HEADER)
             /\ (Finished("trackinfo") /\ a_data # {} /\ TheAlbum.kind = "json")
                  => ret = trackinfo_result(other, TheTrack.body, TheAlbum.body)
       /\ ret.status = "returned"
            => /\ ret.value.name = TheTrack.body.name
               /\ ret.value.artist = TheTrack.body.artists[1].name
               /\ ret.value.album_id = TheTrack.body.album.id
               /\ ret.value.track_id = TheTrack.body.id

\* A row whose name and identifier differ from the track response's was used.
C10_Witness ==
    /\ Finished("trackinfo") /\ ret.status = "returned"
    /\ call.track = <<7, "Another song", "Another artist", "Another album", "trk1">>
    /\ ret.value.track_id = "trk2"
    /\ ret.value.name = "Name of trk2"
====
